---- MODULE Spec2Model ----
(***************************************************************************)
(* Model of the Micro Emergency Assistant (src/.../App.jsx).               *)
(*                                                                         *)
(* Conventions                                                             *)
(*  - Coordinates are integers in micro-degrees (1e-6 degree), so that     *)
(*    ADDIS_FALLBACK = (9.010793, 38.761253) is represented exactly.       *)
(*  - Time is in milliseconds; a timer carries the time left until it is   *)
(*    due and fires when that reaches 0.                                   *)
(*  - A React closure reads the state of the render that created it: an    *)
(*    event handler reads the current state, a timer callback or an async  *)
(*    continuation reads the values captured when it was created.  Such    *)
(*    captured values are stored in the timer / continuation record.       *)
(***************************************************************************)
EXTENDS Integers, Sequences, FiniteSets, TLC

(* ------------------------------ bounds -------------------------------- *)
MaxPresses == 2
MaxTicks == 2
MaxStarts == 2
MaxCatalog == 3
MaxCount == 3
MaxDistanceSteps == 40
MaxEdits == 2
MaxSaves == 2
MaxOps == 2
MaxMotionSteps == 10

(* ------------------------- program constants -------------------------- *)
DOUBLE_TAP_MS == 400               \* App.jsx:122
LONG_PRESS_MS == 800               \* App.jsx:130
TRACK_INTERVAL_MS == 5000          \* App.jsx:102
ACCEPT_DELAY_MS == 5000            \* App.jsx:104
TOAST_MS == 3000                   \* App.jsx:71
GEO_TIMEOUT_MS == 10000            \* App.jsx:61
STEP == 600                        \* App.jsx:95   0.0006 degree
THRESHOLD == 800                   \* App.jsx:99   0.0008 degree
JITTER_SPAN == 500                 \* App.jsx:89   (Math.random()-0.5)*0.0005
WALK_KMH == 5                      \* App.jsx:30
DRIVE_KMH == 40                    \* App.jsx:30

Null == [null |-> TRUE]
ADDIS_FALLBACK == [lat |-> 9010793, lon |-> 38761253]

(* Positions the platform may report on success. *)
GeoPositions == {[lat |-> 9012000, lon |-> 38760000]}

(* Values (Math.random()-0.5)*0.0005 may take, as <<lat, lon>> pairs: the   *)
(* range is [-JITTER_SPAN/2, JITTER_SPAN/2).                               *)
Jitters == { <<-(JITTER_SPAN \div 2), 200>>, <<0, 0>>, <<JITTER_SPAN \div 2 - 1, -100>> }

(* A /responders.json document (public/responders.json is a static file). *)
RespondersDoc ==
  << [id |-> 1, name |-> "r1", skill |-> "first-aid",
      lat |-> ADDIS_FALLBACK.lat + 1800, lon |-> ADDIS_FALLBACK.lon + 2400],
     [id |-> 2, name |-> "r2", skill |-> "cpr",
      lat |-> ADDIS_FALLBACK.lat + 300, lon |-> ADDIS_FALLBACK.lon - 400] >>

(* ----------------------------- arithmetic ----------------------------- *)
Min(a, b) == IF a < b THEN a ELSE b

RECURSIVE SqrtBetween(_, _, _)
SqrtBetween(n, lo, hi) ==
  IF lo >= hi THEN lo
  ELSE LET mid == (lo + hi + 1) \div 2
       IN IF mid * mid <= n THEN SqrtBetween(n, mid, hi) ELSE SqrtBetween(n, lo, mid - 1)

(* floor(sqrt(n)) for 0 <= n < 2^30 *)
ISqrt(n) == SqrtBetween(n, 0, 32767)

(* Math.hypot on micro-degrees, rounded down to a whole micro-degree *)
Hypot(x, y) == ISqrt(x * x + y * y)

(* x / y rounded to the nearest integer (y > 0) *)
RoundDiv(x, y) == (2 * x + y) \div (2 * y)

(* Faulty variant of MoveToward: no test of the distance before the step *)
MoveToward_NoThreshold(p, target) ==
  IF target = Null THEN p
  ELSE LET dLat == target.lat - p.lat
           dLon == target.lon - p.lon
           dist == Hypot(dLat, dLon)
       IN IF dist = 0 THEN p
          ELSE [p EXCEPT !.lat = p.lat + RoundDiv(dLat * STEP, dist),
                         !.lon = p.lon + RoundDiv(dLon * STEP, dist)]

(* One responder update of the tracking tick: the function passed to      *)
(* prev.map in setResponderPositions, with `target` the `user` the tick's  *)
(* closure reads.                                                          *)
MoveToward(p, target) ==
  IF target = Null THEN p
  ELSE LET dLat == target.lat - p.lat
           dLon == target.lon - p.lon
           dist == Hypot(dLat, dLon)
       IN IF dist < THRESHOLD THEN p
          ELSE [p EXCEPT !.lat = p.lat + RoundDiv(dLat * STEP, dist),
                         !.lon = p.lon + RoundDiv(dLon * STEP, dist)]

MoveAll(prev, target) == [i \in DOMAIN prev |-> MoveToward(prev[i], target)]

InitialPositions(list) ==
  [i \in DOMAIN list |-> [id |-> list[i].id, lat |-> list[i].lat, lon |-> list[i].lon]]

Dec(S, d) == { [t EXCEPT !.left = t.left - d] : t \in S }
Due(S) == { t \in S : t.left = 0 }

(* ------------------------- nearest-service selector ------------------- *)
CategoryKeys == <<"police", "ambulance", "fire", "hospital", "pharmacy">>
FilterKeys == {"all"} \cup {CategoryKeys[i] : i \in DOMAIN CategoryKeys}

(* Facility records an /emergency_data.json document may hold.  h1 and h2  *)
(* share one coordinate, so they are at equal distance from any user.     *)
Facilities ==
  { [name |-> "h1", type |-> "hospital", phone |-> "911",
     lat |-> ADDIS_FALLBACK.lat + 1000, lon |-> ADDIS_FALLBACK.lon],
    [name |-> "h2", type |-> "hospital", phone |-> "912",
     lat |-> ADDIS_FALLBACK.lat + 1000, lon |-> ADDIS_FALLBACK.lon],
    [name |-> "h3", type |-> "hospital", phone |-> "913",
     lat |-> ADDIS_FALLBACK.lat + 3000, lon |-> ADDIS_FALLBACK.lon + 4000],
    [name |-> "h4", type |-> "hospital", phone |-> "914",
     lat |-> ADDIS_FALLBACK.lat, lon |-> ADDIS_FALLBACK.lon + 200],
    [name |-> "p1", type |-> "police", phone |-> "991",
     lat |-> ADDIS_FALLBACK.lat + 2000, lon |-> ADDIS_FALLBACK.lon - 1000] }

RECURSIVE SeqsOver(_, _)
SeqsOver(S, n) ==
  IF n = 0 THEN {<<>>}
  ELSE LET shorter == SeqsOver(S, n - 1)
       IN shorter \cup { Append(q, x) : q \in {r \in shorter : Len(r) = n - 1}, x \in S }

(* The catalogs: every sequence of at most MaxCatalog distinct facilities *)
Catalogs ==
  { c \in SeqsOver(Facilities, MaxCatalog) :
      \A i, j \in DOMAIN c : i # j => c[i] # c[j] }

(* cos(lat) * 10^4 for lat in micro-degrees: 1 - x^2/2 + x^4/24 in fixed   *)
(* point, x = lat * pi / 180.                                             *)
Cos4(lat) ==
  LET x4 == ((lat \div 1000) * 17453) \div 100000
      sq == (x4 * x4) \div 10000
  IN 10000 - sq \div 2 + (sq * sq) \div 240000

Abs(x) == IF x < 0 THEN -x ELSE x

(* Faulty variant of haversineKm: sin(dLon/2) * |sin(dLon/2)| for its square *)
haversineKm_Signed(a, b) ==
  LET dLat == b.lat - a.lat
      dLon == b.lon - a.lon
      h == dLat * dLat
             + ((dLon * Cos4(a.lat)) \div 10000) * ((Abs(dLon) * Cos4(b.lat)) \div 10000)
  IN (ISqrt(IF h < 0 THEN 0 ELSE h) * 1112) \div 10000

(* Faulty variant of haversineKm: R * atan2(...) without the factor 2 *)
haversineKm_Half(a, b) ==
  LET dLat == b.lat - a.lat
      dLon == Abs(b.lon - a.lon)
      h == dLat * dLat
             + ((dLon * Cos4(a.lat)) \div 10000) * ((dLon * Cos4(b.lat)) \div 10000)
  IN (ISqrt(h) * 1112) \div 20000

(* haversineKm in metres, for points less than 0.03 degree apart, where   *)
(* sin x = x and atan2(sqrt h, sqrt(1-h)) = sqrt h to well below a metre:  *)
(* R * 2 * sqrt(h), h = (dLat/2)^2 + cos(lat1) * cos(lat2) * (dLon/2)^2.   *)
(* The squares take the magnitudes: sin(x)**2 is even in x, and each       *)
(* fixed-point product is rounded on a magnitude.                          *)
(* 1112 / 10^4 is R * pi / 180 in metres per micro-degree.                 *)
haversineKm(a, b) ==
  LET dLat == b.lat - a.lat
      dLon == Abs(b.lon - a.lon)
      h == dLat * dLat
             + ((dLon * Cos4(a.lat)) \div 10000) * ((dLon * Cos4(b.lat)) \div 10000)
  IN (ISqrt(h) * 1112) \div 10000

(* Faulty variant of calculateETA: truncates instead of rounding *)
calculateETA_Floor(distanceKm, mode) ==
  (distanceKm * 60) \div ((IF mode = "walking" THEN WALK_KMH ELSE DRIVE_KMH) * 1000)

(* calculateETA(distanceKm, mode), the distance in metres:                 *)
(* Math.round((distanceKm / speed) * 60), Math.round rounding halves up.   *)
calculateETA(distanceKm, mode) ==
  LET speed == IF mode = "walking" THEN WALK_KMH ELSE DRIVE_KMH
  IN RoundDiv(distanceKm * 60, speed * 1000)

(* data.filter(d => d.type === type) *)
FilterType(data, type) == SelectSeq(data, LAMBDA d : d.type = type)

(* filtered.map(item => ({...item, distanceKm: haversineKm(user, item)})) *)
WithDistance(user, filtered) ==
  [i \in DOMAIN filtered |->
     [name |-> filtered[i].name, type |-> filtered[i].type, phone |-> filtered[i].phone,
      lat |-> filtered[i].lat, lon |-> filtered[i].lon,
      distanceKm |-> haversineKm(user, [lat |-> filtered[i].lat, lon |-> filtered[i].lon])]]

(* Faulty variant of InsertSorted: x goes in front of the elements equal to it, as *)
(* an unstable sort may leave it.                                         *)
RECURSIVE InsertSorted_Unstable(_, _)
InsertSorted_Unstable(s, x) ==
  IF s = <<>> THEN <<x>>
  ELSE IF s[Len(s)].distanceKm - x.distanceKm < 0 THEN Append(s, x)
  ELSE Append(InsertSorted_Unstable(SubSeq(s, 1, Len(s) - 1), x), s[Len(s)])

(* Insert x into the sorted sequence s behind every element that does not  *)
(* compare greater than it.                                               *)
RECURSIVE InsertSorted(_, _)
InsertSorted(s, x) ==
  IF s = <<>> THEN <<x>>
  ELSE IF s[Len(s)].distanceKm - x.distanceKm <= 0 THEN Append(s, x)
  ELSE Append(InsertSorted(SubSeq(s, 1, Len(s) - 1), x), s[Len(s)])

(* withDistance.sort((a, b) => a.distanceKm - b.distanceKm): Array.sort    *)
(* is a stable sort (ECMAScript 2019).                                    *)
RECURSIVE SortByDistance(_)
SortByDistance(s) ==
  IF s = <<>> THEN <<>>
  ELSE InsertSorted(SortByDistance(SubSeq(s, 1, Len(s) - 1)), s[Len(s)])

(* Faulty variant of Slice0: the slice keeps one element too many *)
Slice0_OffByOne(s, count) == SubSeq(s, 1, Min(count + 1, Len(s)))

(* s.slice(0, count) *)
Slice0(s, count) ==
  LET end == IF count < 0 THEN (IF Len(s) + count < 0 THEN 0 ELSE Len(s) + count)
             ELSE Min(count, Len(s))
  IN SubSeq(s, 1, end)

(* Faulty variant of EmptyResult: null whatever the count *)
EmptyResult_AlwaysNull(count) == [kind |-> "null"]

(* What findNearest returns when no record has the type:                   *)
(* count === 1 ? null : []                                                 *)
EmptyResult(count) ==
  IF count = 1 THEN [kind |-> "null"] ELSE [kind |-> "list", items |-> <<>>]

(* What findNearest returns otherwise:                                     *)
(* count === 1 ? withDistance[0] : withDistance.slice(0, count)            *)
RankedResult(sorted, count) ==
  IF count = 1 THEN [kind |-> "record", item |-> sorted[1]]
  ELSE [kind |-> "list", items |-> Slice0(sorted, count)]

(* findNearest(user, type, data, count).  The JavaScript value returned is *)
(* null, one record or an array: the result is tagged with which.          *)
findNearest(user, type, data, count) ==
  LET filtered == FilterType(data, type)
  IN IF Len(filtered) = 0 THEN EmptyResult(count)
     ELSE RankedResult(SortByDistance(WithDistance(user, filtered)), count)

(* Faulty variant of CatalogAfterFindNearest: the catalog itself is tagged *)
(* and sorted.                                                             *)
CatalogAfterFindNearest_InPlace(user, type, data, count) ==
  SortByDistance(WithDistance(user, data))

(* The catalog array once findNearest(user, type, data, count) returned:   *)
(* data.filter and filtered.map build new arrays, the map callback builds  *)
(* new records ({...item, distanceKm}), and sort orders withDistance.      *)
CatalogAfterFindNearest(user, type, data, count) == data

(* The catalog array once the useMemo callback ran findNearest for `keys` *)
RECURSIVE CatalogAfterKeys(_, _, _)
CatalogAfterKeys(user, data, keys) ==
  IF keys = <<>> THEN data
  ELSE CatalogAfterKeys(user, CatalogAfterFindNearest(user, keys[1], data, 3), Tail(keys))

(* `res && res.length > 0` for the result of a findNearest call *)
Truthy(res) == res.kind = "list" /\ Len(res.items) > 0

(* The useMemo value: category key -> its top 3, for the keys that have any *)
nearestByCategory(user, data) ==
  IF user = Null \/ Len(data) = 0 THEN <<>>
  ELSE LET keys == { CategoryKeys[i] : i \in DOMAIN CategoryKeys }
           has == { k \in keys : Truthy(findNearest(user, k, data, 3)) }
       IN [k \in has |-> findNearest(user, k, data, 3).items]

(* selected === 'all' ? Object.keys(nearestByCategory)                     *)
(*                    : (nearestByCategory[selected] ? [selected] : [])    *)
visibleKeys(selected, nbc) ==
  IF selected = "all" THEN DOMAIN nbc
  ELSE IF selected \in DOMAIN nbc THEN {selected} ELSE {}

(* ------------------------- localization data -------------------------- *)
(* The UI-string keys looked up as `t.<key> || '<default>'`, with their    *)
(* literal defaults (App.jsx:140, 203).                                    *)
UIDefaults ==
  [title |-> "Micro Emergency Assistant", noServices |-> "No services available."]

UIKeys == DOMAIN UIDefaults

(* A key the mapping does not have reads as undefined *)
Undefined == "<undefined>"

Texts == {"", "text A", "text B"}

(* A language entry of the dictionary: present or not, and if present the  *)
(* string (or undefined) each key has.                                     *)
NoMapping == [present |-> FALSE, strings |-> [k \in UIKeys |-> Undefined]]
Mappings ==
  {NoMapping} \cup
    { [present |-> TRUE, strings |-> f] : f \in [UIKeys -> Texts \cup {Undefined}] }

(* useState({}) *)
EmptyDictionary == [json |-> "object", langs |-> [l \in {"en", "am"} |-> NoMapping]]

(* Everything r.json() may resolve to for /translations.json: null, a      *)
(* number, or an object with or without an entry for each language.        *)
TranslationDocs ==
  { [json |-> "null", langs |-> EmptyDictionary.langs],
    [json |-> "number", langs |-> EmptyDictionary.langs] } \cup
  { [json |-> "object", langs |-> f] : f \in [{"en", "am"} -> Mappings] }

(* --------------------------- profile and QR ---------------------------- *)
(* localStorage.getItem('mea_profile') === null *)
NoItem == [item |-> "none"]

(* Text is a sequence of characters, each a one-character string.         *)
Fields == <<"name", "blood", "allergies", "chronic", "contact">>
FieldSet == {Fields[i] : i \in DOMAIN Fields}

(* The characters of each key *)
KeyChars ==
  [name |-> <<"n", "a", "m", "e">>,
   blood |-> <<"b", "l", "o", "o", "d">>,
   allergies |-> <<"a", "l", "l", "e", "r", "g", "i", "e", "s">>,
   chronic |-> <<"c", "h", "r", "o", "n", "i", "c">>,
   contact |-> <<"c", "o", "n", "t", "a", "c", "t">>]

(* What `${obj.name}` shows for a property that is undefined, and the      *)
(* value of a field the profile object does not have.                      *)
UndefinedText == <<"undefined">>

(* A text longer than a QR symbol holds (QRCode.toDataURL rejects it) *)
LongText == <<"<a text of 3000 characters>">>

(* What the user may type into a field: letters, a quote, a backslash, a   *)
(* line break (the textareas), a non-ASCII letter, a very long text.       *)
FieldStrings == { <<"a">>, <<"\"", "\\", "\n", "é">>, LongText }

(* { name: '', blood: '', allergies: '', chronic: '', contact: '' } *)
EmptyProfile == [f \in FieldSet |-> <<>>]

RECURSIVE EscapeFrom_NoBackslash(_, _)
(* Faulty variant of EscapeFrom: the backslash is not escaped *)
EscapeFrom_NoBackslash(s, i) ==
  IF i > Len(s) THEN <<>>
  ELSE (IF s[i] = "\"" THEN <<"\\", "\"">>
        ELSE IF s[i] = "\n" THEN <<"\\", "n">>
        ELSE <<s[i]>>) \o EscapeFrom_NoBackslash(s, i + 1)

RECURSIVE EscapeFrom(_, _)
(* The body of the JSON string literal of s from position i on:            *)
(* JSON.stringify escapes the quote, the backslash and the line break.     *)
EscapeFrom(s, i) ==
  IF i > Len(s) THEN <<>>
  ELSE (IF s[i] = "\"" THEN <<"\\", "\"">>
        ELSE IF s[i] = "\\" THEN <<"\\", "\\">>
        ELSE IF s[i] = "\n" THEN <<"\\", "n">>
        ELSE <<s[i]>>) \o EscapeFrom(s, i + 1)

Quoted(s) == <<"\"">> \o EscapeFrom(s, 1) \o <<"\"">>

RECURSIVE MembersFrom(_, _, _)
(* The members of JSON.stringify(value) for the fields from i on: a field  *)
(* whose value is undefined is left out.                                   *)
MembersFrom(value, i, first) ==
  IF i > Len(Fields) THEN <<>>
  ELSE IF value[Fields[i]] = UndefinedText THEN MembersFrom(value, i + 1, first)
  ELSE (IF first THEN <<>> ELSE <<",">>)
         \o Quoted(KeyChars[Fields[i]]) \o <<":">> \o Quoted(value[Fields[i]])
         \o MembersFrom(value, i + 1, FALSE)

(* JSON.stringify(profile) *)
Stringify(value) == <<"{">> \o MembersFrom(value, 1, TRUE) \o <<"}">>

ParseFail == [ok |-> FALSE, kind |-> "", members |-> <<>>, value |-> <<>>, next |-> 0]

RECURSIVE ReadString(_, _, _)
(* The string literal whose opening quote is before position i: its value  *)
(* and the position after its closing quote.  A raw line break and an      *)
(* unknown escape are syntax errors.                                       *)
ReadString(s, i, acc) ==
  IF i > Len(s) THEN ParseFail
  ELSE IF s[i] = "\"" THEN [ParseFail EXCEPT !.ok = TRUE, !.kind = "string",
                                             !.value = acc, !.next = i + 1]
  ELSE IF s[i] = "\n" THEN ParseFail
  ELSE IF s[i] = "\\"
       THEN IF i + 1 > Len(s) THEN ParseFail
            ELSE IF s[i + 1] = "\"" THEN ReadString(s, i + 2, Append(acc, "\""))
            ELSE IF s[i + 1] = "\\" THEN ReadString(s, i + 2, Append(acc, "\\"))
            ELSE IF s[i + 1] = "n" THEN ReadString(s, i + 2, Append(acc, "\n"))
            ELSE ParseFail
  ELSE ReadString(s, i + 1, Append(acc, s[i]))

RECURSIVE ReadMembers(_, _, _)
(* The members of an object from position i (after '{' or ','): pairs of   *)
(* a key and a string value, up to the closing brace that ends the text.   *)
ReadMembers(s, i, acc) ==
  IF i > Len(s) \/ s[i] # "\"" THEN ParseFail
  ELSE LET key == ReadString(s, i + 1, <<>>)
       IN IF ~key.ok \/ key.next + 1 > Len(s) \/ s[key.next] # ":" \/ s[key.next + 1] # "\""
          THEN ParseFail
          ELSE LET val == ReadString(s, key.next + 2, <<>>)
                   all == Append(acc, <<key.value, val.value>>)
               IN IF ~val.ok \/ val.next > Len(s) THEN ParseFail
                  ELSE IF s[val.next] = "," THEN ReadMembers(s, val.next + 1, all)
                  ELSE IF s[val.next] = "}" /\ val.next = Len(s)
                       THEN [ParseFail EXCEPT !.ok = TRUE, !.kind = "object", !.members = all]
                  ELSE ParseFail

(* JSON.parse(text) for the JSON used here: null, a number of the digits   *)
(* 2 and 4, a string, the empty array, and an object whose members have    *)
(* string values; anything else is a SyntaxError.                          *)
JSONparse(s) ==
  IF s = <<>> THEN ParseFail
  ELSE IF s = <<"n", "u", "l", "l">> THEN [ParseFail EXCEPT !.ok = TRUE, !.kind = "null"]
  ELSE IF \A i \in DOMAIN s : s[i] \in {"2", "4"}
       THEN [ParseFail EXCEPT !.ok = TRUE, !.kind = "number"]
  ELSE IF s = <<"[", "]">> THEN [ParseFail EXCEPT !.ok = TRUE, !.kind = "array"]
  ELSE IF s[1] = "\""
       THEN LET r == ReadString(s, 2, <<>>)
            IN IF r.ok /\ r.next = Len(s) + 1 THEN r ELSE ParseFail
  ELSE IF s[1] = "{"
       THEN IF s = <<"{", "}">> THEN [ParseFail EXCEPT !.ok = TRUE, !.kind = "object"]
            ELSE ReadMembers(s, 2, <<>>)
  ELSE ParseFail

(* obj.<field> of a parsed value that is not null: the value of the last   *)
(* member with that key, undefined when there is none (and for a number,   *)
(* a string and an array).                                                 *)
Property(obj, field) ==
  LET at == { i \in DOMAIN obj.members : obj.members[i][1] = KeyChars[field] }
  IN IF at = {} THEN UndefinedText
     ELSE obj.members[CHOOSE i \in at : \A j \in at : j <= i][2]

PropertiesOf(obj) == [f \in FieldSet |-> Property(obj, f)]

(* Code units of the ASCII characters the texts use *)
AsciiTable ==
  << <<"n", 110>>, <<"a", 97>>, <<"m", 109>>, <<"e", 101>>, <<"b", 98>>, <<"l", 108>>,
     <<"d", 100>>, <<"o", 111>>, <<"r", 114>>, <<"g", 103>>, <<"i", 105>>, <<"s", 115>>,
     <<"c", 99>>, <<"t", 116>>, <<"h", 104>>, <<"u", 117>>, <<"4", 52>>, <<"2", 50>>,
     <<"{", 123>>, <<"}", 125>>, <<":", 58>>, <<",", 44>>, <<"[", 91>>, <<"]", 93>>,
     <<"\"", 34>>, <<"\\", 92>>, <<"\n", 10>> >>

AsciiChars == { AsciiTable[i][1] : i \in DOMAIN AsciiTable }
CodeOf(c) == AsciiTable[CHOOSE i \in DOMAIN AsciiTable : AsciiTable[i][1] = c][2]
CharOf(b) == AsciiTable[CHOOSE i \in DOMAIN AsciiTable : AsciiTable[i][2] = b][1]

RECURSIVE Utf8From(_, _, _)
(* The UTF-8 bytes of the characters lo..hi of the text: the bytes QRCode  *)
(* puts in the symbol (byte mode).  The range is halved to keep the        *)
(* evaluation shallow.                                                     *)
Utf8From(s, lo, hi) ==
  IF lo > hi THEN <<>>
  ELSE IF lo = hi THEN (IF s[lo] = "é" THEN <<195, 169>> ELSE <<CodeOf(s[lo])>>)
  ELSE LET mid == (lo + hi) \div 2
       IN Utf8From(s, lo, mid) \o Utf8From(s, mid + 1, hi)

RECURSIVE Utf8Decode(_, _, _)
(* The text jsQR returns for the bytes lo..hi of a symbol.  The range is   *)
(* halved where no two-byte character is cut.                              *)
Utf8Decode(b, lo, hi) ==
  IF lo > hi THEN <<>>
  ELSE IF lo = hi THEN <<CharOf(b[lo])>>
  ELSE IF hi = lo + 1 /\ b[lo] = 195 /\ b[hi] = 169 THEN <<"é">>
  ELSE LET mid == (lo + hi) \div 2
           cut == IF b[mid] = 195 /\ b[mid + 1] = 169 /\ mid > lo THEN mid - 1 ELSE mid
       IN Utf8Decode(b, lo, cut) \o Utf8Decode(b, cut + 1, hi)

(* QRCode.toDataURL(json) resolves when the text fits a symbol *)
Fits(text) == \A i \in DOMAIN text : text[i] # LongText[1]

(* Payloads of codes that were not generated here: a text that is not     *)
(* JSON, JSON that is no profile object, and the empty payload.            *)
ForeignPayloads ==
  { <<"h", "e", "l", "l", "o">>,
    <<"4", "2">>,
    <<"n", "u", "l", "l">>,
    <<"{", "}">>,
    <<>> }

(* What localStorage may hold under 'mea_profile' when the page starts:    *)
(* nothing, a profile saved earlier, or a text something else left there.  *)
InitialItems ==
  { NoItem,
    [item |-> "text", text |-> Stringify([EmptyProfile EXCEPT !.name = <<"a">>])],
    [item |-> "text", text |-> <<"{", "\"", "n", "a", "m", "e", "\"", ":", "\"", "a", "\"", "}">>],
    [item |-> "text", text |-> <<"n", "u", "l", "l">>],
    [item |-> "text", text |-> <<"h", "e", "l", "l", "o">>] }

(* ------------------------------- state -------------------------------- *)
VARIABLES
  user,                 \* useState(null): Null or [lat, lon]
  data,                 \* useState([]): the catalog
  selected,             \* useState('all'): the category filter
  error,                \* useState('')
  isPanic,              \* useState(false)
  trackingTimerRef,     \* useRef(null): 0 or the id of an interval
  responders,           \* useState([])
  responderPositions,   \* useState([])
  responderAccepted,    \* useState(false)
  emergencyBtnPressRef, \* useRef({count, last, longPress}); `last` kept as time since
  showToast,            \* useState(false)
  toastMessage,         \* useState('')
  geo,                  \* "absent" | "pending" | "success" | "error" | "timeout"
  geoLeft,              \* time left until the position query times out
  held,                 \* the presses physically down on the emergency button
  longTimers,           \* pending long-press timeouts [press, left, isPanic, user]
  fetches,              \* startPanicMode calls awaiting /responders.json [id, user]
  intervals,            \* live setInterval timers [id, left, user]
  acceptTimers,         \* pending acceptance timeouts [id, left]
  toastTimers,          \* pending toast-hide timeouts [id, left]
  nPresses,             \* press-start events so far
  nStarts,              \* startPanicMode calls that passed the isPanic guard
  ticks,                \* executions of the interval callback
  pings,                \* executions that got past `if (!user) return`
  sinceEntry,           \* time since isPanic last went false -> true (capped)
  gesture,              \* what caused that transition
  geoSets,              \* setUser calls made by location acquisition
  dataLoad,             \* /emergency_data.json: "pending" | "loaded" | "failed"
  call,                 \* the last direct findNearest call: arguments and result
  dataJson,             \* the JSON type of the value held in `data`
  translations,         \* useState({}): the parsed /translations.json
  language,             \* useState('en')
  eta,                  \* the last calculateETA call: arguments and result
  profile,              \* Profile: useState(initialiser); unmounted, mounted or threw
  storage,              \* localStorage item 'mea_profile': NoItem or its text
  qrDataUrl,            \* Profile: useState(''): the text the shown code carries
  qrProfile,            \* the profile of the saveProfile call that generated that code
  scan,                 \* the last onScanUpload: what was uploaded and the outcome
  nEdits,               \* field edits so far
  nSaves,               \* saveProfile calls so far
  showShareModal,       \* useState(false): false | true | 'profile'
  share,                \* the last shareVia call: medium, what happened, what was tried
  nOps,                 \* user operations so far
  dialed                \* window.location.href set by handleEmergencyCall ("" if never)

appVars == <<user, error, isPanic, trackingTimerRef, responders, responderPositions,
             responderAccepted, emergencyBtnPressRef, showToast, toastMessage>>
envVars == <<geo, geoLeft, held, longTimers, fetches, intervals, acceptTimers, toastTimers>>
ghostVars == <<nPresses, nStarts, ticks, pings, sinceEntry, gesture, geoSets>>
panicVars == <<isPanic, trackingTimerRef, responders, responderPositions,
              responderAccepted, emergencyBtnPressRef, showToast, toastMessage>>
catalogVars == <<data, selected, dataLoad, call, dataJson>>
i18nVars == <<translations, language>>
profileVars == <<profile, storage, qrDataUrl, qrProfile, scan, nEdits, nSaves>>
shareVars == <<showShareModal, share, nOps, dialed>>
auxVars == <<i18nVars, eta, profileVars, shareVars>>
vars == <<appVars, envVars, ghostVars, catalogVars, auxVars>>

(* ---------------------------- geolocation ----------------------------- *)
(* Faulty variant of GeolocationEffectUser: no fallback without the capability *)
GeolocationEffectUser_NoFallback(hasGeolocation) == Null

(* The geolocation effect, run once at mount: the value of `user` after it *)
(* for a platform with / without the capability.                          *)
GeolocationEffectUser(hasGeolocation) ==
  IF ~hasGeolocation THEN ADDIS_FALLBACK ELSE Null

(* The state after mount: the three effects have run, the two fetches and *)
(* the position query (if the platform has one) are in flight.            *)
InitGeo ==
  \E hasGeolocation \in BOOLEAN :
    /\ user = GeolocationEffectUser(hasGeolocation)
    /\ geo = IF hasGeolocation THEN "pending" ELSE "absent"
    /\ geoLeft = IF hasGeolocation THEN GEO_TIMEOUT_MS ELSE 0
    /\ geoSets = IF hasGeolocation THEN 0 ELSE 1

InitCatalog ==
  /\ data = <<>>
  /\ dataJson = "array"
  /\ dataLoad = "pending"

InitRest ==
  /\ selected = "all"
  /\ call = [kind |-> "none"]
  /\ error = ""
  /\ isPanic = FALSE
  /\ trackingTimerRef = 0
  /\ responders = <<>>
  /\ responderPositions = <<>>
  /\ responderAccepted = FALSE
  /\ emergencyBtnPressRef = [count |-> 0, sinceLast |-> DOUBLE_TAP_MS, longPress |-> 0]
  /\ showToast = FALSE
  /\ toastMessage = ""
  /\ held = {}
  /\ longTimers = {}
  /\ fetches = {}
  /\ intervals = {}
  /\ acceptTimers = {}
  /\ toastTimers = {}
  /\ nPresses = 0
  /\ nStarts = 0
  /\ ticks = 0
  /\ pings = 0
  /\ sinceEntry = ACCEPT_DELAY_MS
  /\ gesture = "none"
  /\ translations = EmptyDictionary
  /\ language = "en"
  /\ eta = [kind |-> "none"]
  /\ profile = [kind |-> "unmounted"]
  /\ qrDataUrl = <<>>
  /\ qrProfile = [kind |-> "none"]
  /\ scan = [kind |-> "none"]
  /\ nEdits = 0
  /\ nSaves = 0
  /\ showShareModal = "false"
  /\ share = [kind |-> "none"]
  /\ nOps = 0
  /\ dialed = ""

Init == InitGeo /\ InitCatalog /\ InitRest /\ storage = NoItem

(* getCurrentPosition success callback: pos => setUser({lat, lon}) *)
GeoSuccess ==
  /\ geo = "pending"
  /\ \E pos \in GeoPositions : user' = [lat |-> pos.lat, lon |-> pos.lon]
  /\ geo' = "success"
  /\ geoLeft' = 0
  /\ geoSets' = geoSets + 1
  /\ UNCHANGED <<error, isPanic, trackingTimerRef, responders, responderPositions,
                 responderAccepted, emergencyBtnPressRef, showToast, toastMessage>>
  /\ UNCHANGED <<held, longTimers, fetches, intervals, acceptTimers, toastTimers>>
  /\ UNCHANGED <<nPresses, nStarts, ticks, pings, sinceEntry, gesture>>
  /\ UNCHANGED catalogVars
  /\ UNCHANGED auxVars

(* Faulty variant of GeoError: the error callback also reports the failure *)
GeoError_ShowsError ==
  /\ geo = "pending"
  /\ user' = ADDIS_FALLBACK
  /\ error' = "Location unavailable"
  /\ geo' = IF geoLeft = 0 THEN "timeout" ELSE "error"
  /\ geoLeft' = 0
  /\ geoSets' = geoSets + 1
  /\ UNCHANGED panicVars
  /\ UNCHANGED <<held, longTimers, fetches, intervals, acceptTimers, toastTimers>>
  /\ UNCHANGED <<nPresses, nStarts, ticks, pings, sinceEntry, gesture>>
  /\ UNCHANGED catalogVars
  /\ UNCHANGED auxVars

(* getCurrentPosition error callback: () => setUser(ADDIS_FALLBACK).       *)
(* geo records whether the platform called it before or at the timeout.    *)
GeoError ==
  /\ geo = "pending"
  /\ user' = ADDIS_FALLBACK
  /\ geo' = IF geoLeft = 0 THEN "timeout" ELSE "error"
  /\ geoLeft' = 0
  /\ geoSets' = geoSets + 1
  /\ UNCHANGED <<error, isPanic, trackingTimerRef, responders, responderPositions,
                 responderAccepted, emergencyBtnPressRef, showToast, toastMessage>>
  /\ UNCHANGED <<held, longTimers, fetches, intervals, acceptTimers, toastTimers>>
  /\ UNCHANGED <<nPresses, nStarts, ticks, pings, sinceEntry, gesture>>
  /\ UNCHANGED catalogVars
  /\ UNCHANGED auxVars

(* ----------------------------- panic mode ------------------------------ *)
(* showToastMsg(msg), called by the startPanicMode call numbered id *)
showToastMsg(msg, id) ==
  /\ toastMessage' = msg
  /\ showToast' = TRUE
  /\ toastTimers' = toastTimers \cup {[id |-> id, left |-> TOAST_MS]}

(* startPanicMode up to `await fetch('/responders.json')`, as called from  *)
(* a closure that captured isPanic = cIsPanic and user = cUser.            *)
startPanicMode(cIsPanic, cUser) ==
  IF cIsPanic
  THEN UNCHANGED <<isPanic, showToast, toastMessage, toastTimers, fetches, nStarts>>
  ELSE /\ nStarts < MaxStarts
       /\ isPanic' = TRUE
       /\ showToastMsg("Alert sent to 3 contacts & local authorities", nStarts + 1)
       /\ fetches' = fetches \cup {[id |-> nStarts + 1, user |-> cUser]}
       /\ nStarts' = nStarts + 1

(* Ghost bookkeeping of an Idle -> Active transition caused by `how`. *)
NoteEntry(how) ==
  IF ~isPanic /\ isPanic'
  THEN sinceEntry' = 0 /\ gesture' = how
  ELSE UNCHANGED <<sinceEntry, gesture>>

(* emergencyPressStart: onMouseDown / onTouchStart of the emergency button *)
emergencyPressStart ==
  /\ nPresses < MaxPresses
  /\ LET ref == emergencyBtnPressRef
         press == nPresses + 1
         rapid == ref.sinceLast < DOUBLE_TAP_MS
         count == IF rapid THEN ref.count + 1 ELSE 1
     IN /\ IF rapid /\ count >= 2
           THEN startPanicMode(isPanic, user)
           ELSE UNCHANGED <<isPanic, showToast, toastMessage, toastTimers, fetches, nStarts>>
        /\ emergencyBtnPressRef' = [count |-> count, sinceLast |-> 0, longPress |-> press]
        /\ longTimers' = longTimers \cup
             {[press |-> press, left |-> LONG_PRESS_MS, isPanic |-> isPanic, user |-> user]}
        /\ held' = held \cup {press}
        /\ nPresses' = press
  /\ NoteEntry("double")
  /\ UNCHANGED <<user, error, trackingTimerRef, responders, responderPositions,
                 responderAccepted>>
  /\ UNCHANGED <<geo, geoLeft, intervals, acceptTimers>>
  /\ UNCHANGED <<ticks, pings, geoSets>>
  /\ UNCHANGED catalogVars
  /\ UNCHANGED auxVars

(* emergencyPressEnd: onMouseUp / onTouchEnd delivered to the button for a *)
(* press that is down.                                                    *)
emergencyPressEnd ==
  /\ \E p \in held : held' = held \ {p}
  /\ IF emergencyBtnPressRef.longPress # 0
     THEN /\ longTimers' = { t \in longTimers : t.press # emergencyBtnPressRef.longPress }
          /\ emergencyBtnPressRef' = [emergencyBtnPressRef EXCEPT !.longPress = 0]
     ELSE UNCHANGED <<longTimers, emergencyBtnPressRef>>
  /\ UNCHANGED <<user, error, isPanic, trackingTimerRef, responders, responderPositions,
                 responderAccepted, showToast, toastMessage>>
  /\ UNCHANGED <<geo, geoLeft, fetches, intervals, acceptTimers, toastTimers>>
  /\ UNCHANGED ghostVars
  /\ UNCHANGED catalogVars
  /\ UNCHANGED auxVars

(* A press released where the button receives no mouseup / touchend (the  *)
(* pointer left the button, the touch was cancelled): no handler runs.    *)
ReleaseElsewhere ==
  /\ \E p \in held : held' = held \ {p}
  /\ UNCHANGED appVars
  /\ UNCHANGED <<geo, geoLeft, longTimers, fetches, intervals, acceptTimers, toastTimers>>
  /\ UNCHANGED ghostVars
  /\ UNCHANGED catalogVars
  /\ UNCHANGED auxVars

(* The long-press timeout: setTimeout(() => startPanicMode(), 800) *)
LongPressFire ==
  \E t \in Due(longTimers) :
    /\ longTimers' = longTimers \ {t}
    /\ startPanicMode(t.isPanic, t.user)
    /\ NoteEntry(IF t.press \in held THEN "held" ELSE "released")
    /\ UNCHANGED <<user, error, trackingTimerRef, responders, responderPositions,
                   responderAccepted, emergencyBtnPressRef>>
    /\ UNCHANGED <<geo, geoLeft, held, intervals, acceptTimers>>
    /\ UNCHANGED <<nPresses, ticks, pings, geoSets>>
    /\ UNCHANGED catalogVars
    /\ UNCHANGED auxVars

(* startPanicMode after the await: the responders fetch resolved (ok) or  *)
(* threw (~ok, swallowed by catch {}); then the interval and the          *)
(* acceptance timeout are created.                                        *)
startPanicModeResume(f, ok) ==
  /\ fetches' = fetches \ {f}
  /\ IF ok
     THEN /\ responders' = RespondersDoc
          /\ responderPositions' = InitialPositions(RespondersDoc)
     ELSE UNCHANGED <<responders, responderPositions>>
  /\ intervals' = intervals \cup {[id |-> f.id, left |-> TRACK_INTERVAL_MS, user |-> f.user]}
  /\ trackingTimerRef' = f.id
  /\ acceptTimers' = acceptTimers \cup {[id |-> f.id, left |-> ACCEPT_DELAY_MS]}

RespondersFetched ==
  /\ \E f \in fetches, ok \in BOOLEAN : startPanicModeResume(f, ok)
  /\ UNCHANGED <<user, error, isPanic, responderAccepted, emergencyBtnPressRef,
                 showToast, toastMessage>>
  /\ UNCHANGED <<geo, geoLeft, held, longTimers, toastTimers>>
  /\ UNCHANGED ghostVars
  /\ UNCHANGED catalogVars
  /\ UNCHANGED auxVars

(* The user coordinate after the tick's jitter:                            *)
(* setUser(prev => prev ? {lat: prev.lat + j, lon: prev.lon + j'} : prev)  *)
JitterUser(prev, j) ==
  IF prev # Null THEN [lat |-> prev.lat + j[1], lon |-> prev.lon + j[2]] ELSE prev

(* The coordinate the tick of interval iv moves the responders toward *)
TickTarget(iv) == iv.user

(* One execution of the setInterval callback of interval iv *)
TrackingTick ==
  \E iv \in Due(intervals) :
    /\ ticks < MaxTicks
    /\ ticks' = ticks + 1
    /\ intervals' = (intervals \ {iv}) \cup {[iv EXCEPT !.left = TRACK_INTERVAL_MS]}
    /\ IF iv.user = Null
       THEN UNCHANGED <<user, pings, responderPositions>>
       ELSE /\ \E j \in Jitters : user' = JitterUser(user, j)
            /\ pings' = pings + 1
            /\ responderPositions' = MoveAll(responderPositions, TickTarget(iv))
    /\ UNCHANGED <<error, isPanic, trackingTimerRef, responders, responderAccepted,
                   emergencyBtnPressRef, showToast, toastMessage>>
    /\ UNCHANGED <<geo, geoLeft, held, longTimers, fetches, acceptTimers, toastTimers>>
    /\ UNCHANGED <<nPresses, nStarts, sinceEntry, gesture, geoSets>>
    /\ UNCHANGED catalogVars
    /\ UNCHANGED auxVars

(* setTimeout(() => setResponderAccepted(true), 5000) *)
AcceptFire ==
  \E a \in Due(acceptTimers) :
    /\ acceptTimers' = acceptTimers \ {a}
    /\ responderAccepted' = TRUE
    /\ UNCHANGED <<user, error, isPanic, trackingTimerRef, responders, responderPositions,
                   emergencyBtnPressRef, showToast, toastMessage>>
    /\ UNCHANGED <<geo, geoLeft, held, longTimers, fetches, intervals, toastTimers>>
    /\ UNCHANGED ghostVars
    /\ UNCHANGED catalogVars
    /\ UNCHANGED auxVars

(* setTimeout(() => setShowToast(false), 3000) *)
ToastFire ==
  \E a \in Due(toastTimers) :
    /\ toastTimers' = toastTimers \ {a}
    /\ showToast' = FALSE
    /\ UNCHANGED <<user, error, isPanic, trackingTimerRef, responders, responderPositions,
                   responderAccepted, emergencyBtnPressRef, toastMessage>>
    /\ UNCHANGED <<geo, geoLeft, held, longTimers, fetches, intervals, acceptTimers>>
    /\ UNCHANGED ghostVars
    /\ UNCHANGED catalogVars
    /\ UNCHANGED auxVars

(* The timers clearInterval(trackingTimerRef.current) leaves alive *)
ClearTracking(S, ref) == { iv \in S : iv.id # ref }

(* stopPanicMode: the tracking banner or the Stop button, both rendered   *)
(* only while isPanic.                                                    *)
stopPanicMode ==
  /\ isPanic
  /\ isPanic' = FALSE
  /\ responderAccepted' = FALSE
  /\ intervals' = IF trackingTimerRef # 0 THEN ClearTracking(intervals, trackingTimerRef)
                  ELSE intervals
  /\ trackingTimerRef' = 0
  /\ UNCHANGED <<user, error, responders, responderPositions, emergencyBtnPressRef,
                 showToast, toastMessage>>
  /\ UNCHANGED <<geo, geoLeft, held, longTimers, fetches, acceptTimers, toastTimers>>
  /\ UNCHANGED ghostVars
  /\ UNCHANGED catalogVars
  /\ UNCHANGED auxVars

(* ------------------------------- time --------------------------------- *)
(* The times left of everything that is pending: the timers and, while the *)
(* position query is pending, its timeout.                                 *)
Lefts ==
  {t.left : t \in longTimers} \cup {t.left : t \in intervals}
    \cup {t.left : t \in acceptTimers} \cup {t.left : t \in toastTimers}
    \cup (IF geo = "pending" THEN {geoLeft} ELSE {})

SetMin(S) == CHOOSE x \in S : \A y \in S : x <= y

(* Time until the next timer is due; with nothing pending, long enough for *)
(* every elapsed-time reading of the program to saturate.                  *)
NextDue == IF Lefts = {} THEN ACCEPT_DELAY_MS ELSE SetMin(Lefts)

(* The instants at which the program's behaviour can change: the next due  *)
(* timer, and the closing of the double-tap window after a press-start.    *)
Steps ==
  {NextDue} \cup
    (IF emergencyBtnPressRef.sinceLast < DOUBLE_TAP_MS
     THEN {DOUBLE_TAP_MS - emergencyBtnPressRef.sinceLast} ELSE {})

(* d ms pass, up to the next such instant.  A due timer fires before time  *)
(* moves on; the position query answers no later than its timeout.        *)
Advance ==
  /\ 0 \notin Lefts
  /\ \/ Lefts # {}
     \/ emergencyBtnPressRef.sinceLast < DOUBLE_TAP_MS
     \/ sinceEntry < ACCEPT_DELAY_MS
  /\ \E d \in Steps :
       /\ d <= NextDue
       /\ longTimers' = Dec(longTimers, d)
       /\ intervals' = Dec(intervals, d)
       /\ acceptTimers' = Dec(acceptTimers, d)
       /\ toastTimers' = Dec(toastTimers, d)
       /\ geoLeft' = IF geo = "pending" THEN geoLeft - d ELSE geoLeft
       /\ emergencyBtnPressRef' =
            [emergencyBtnPressRef EXCEPT !.sinceLast = Min(@ + d, DOUBLE_TAP_MS)]
       /\ sinceEntry' = Min(sinceEntry + d, ACCEPT_DELAY_MS)
  /\ UNCHANGED <<user, error, isPanic, trackingTimerRef, responders, responderPositions,
                 responderAccepted, showToast, toastMessage>>
  /\ UNCHANGED <<geo, held, fetches>>
  /\ UNCHANGED <<nPresses, nStarts, ticks, pings, gesture, geoSets>>
  /\ UNCHANGED catalogVars
  /\ UNCHANGED auxVars

(* ------------------------------ catalog ------------------------------- *)
(* Bodies of /emergency_data.json that are JSON but not a sequence of       *)
(* facility records: null, an object, a non-empty string, a number, [null] *)
(* and [{"name": "x"}].  `value` is the array when the body is one.        *)
MalformedDocs ==
  { [json |-> "null", value |-> <<>>],
    [json |-> "object", value |-> <<>>],
    [json |-> "string", value |-> <<>>],
    [json |-> "number", value |-> <<>>],
    [json |-> "array", value |-> <<Null>>],
    [json |-> "array", value |-> <<[name |-> "x"]>>] }

(* Everything r.json() may resolve to *)
CatalogDocs == { [json |-> "array", value |-> c] : c \in Catalogs } \cup MalformedDocs

(* fetch('/emergency_data.json').then(r => r.json()).then(setData): the    *)
(* body parsed as JSON, and setData stores whatever it parsed to.          *)
CatalogLoaded ==
  /\ dataLoad = "pending"
  /\ \E doc \in CatalogDocs : data' = doc.value /\ dataJson' = doc.json
  /\ dataLoad' = "loaded"
  /\ UNCHANGED <<selected, call>>
  /\ UNCHANGED auxVars
  /\ UNCHANGED panicVars
  /\ UNCHANGED <<user, error>>
  /\ UNCHANGED envVars
  /\ UNCHANGED ghostVars

(* .catch(() => setError('Failed to load emergency data')): the fetch      *)
(* rejected, or the body is not JSON and r.json() rejected.                *)
CatalogFailed ==
  /\ dataLoad = "pending"
  /\ error' = "Failed to load emergency data"
  /\ dataLoad' = "failed"
  /\ UNCHANGED <<data, selected, call, dataJson>>
  /\ UNCHANGED auxVars
  /\ UNCHANGED panicVars
  /\ UNCHANGED user
  /\ UNCHANGED envVars
  /\ UNCHANGED ghostVars

(* A filter chip: onClick={() => setSelected(c.key)} *)
SetSelected ==
  /\ nOps < MaxOps
  /\ nOps' = nOps + 1
  /\ \E key \in FilterKeys : key # selected /\ selected' = key
  /\ UNCHANGED <<data, dataLoad, call, dataJson>>
  /\ UNCHANGED <<showShareModal, share, dialed>>
  /\ UNCHANGED <<i18nVars, eta, profileVars>>
  /\ UNCHANGED appVars
  /\ UNCHANGED envVars
  /\ UNCHANGED ghostVars

(* A direct call findNearest(user, type, data, count) *)
FindNearestCall ==
  /\ nOps < MaxOps
  /\ nOps' = nOps + 1
  /\ user # Null
  /\ \E type \in {CategoryKeys[i] : i \in DOMAIN CategoryKeys}, count \in 0..MaxCount :
       /\ call' = [kind |-> "call", type |-> type, count |-> count,
                   result |-> findNearest(user, type, data, count)]
       /\ data' = CatalogAfterFindNearest(user, type, data, count)
  /\ UNCHANGED <<selected, dataLoad, dataJson>>
  /\ UNCHANGED <<showShareModal, share, dialed>>
  /\ UNCHANGED <<i18nVars, eta, profileVars>>
  /\ UNCHANGED appVars
  /\ UNCHANGED envVars
  /\ UNCHANGED ghostVars

(* A render whose useMemo callback runs: nearestByCategory recomputed *)
RecomputeNearest ==
  /\ nOps < MaxOps
  /\ nOps' = nOps + 1
  /\ call' = [kind |-> "memo", keys |-> DOMAIN nearestByCategory(user, data)]
  /\ data' = IF user = Null \/ Len(data) = 0 THEN data
             ELSE CatalogAfterKeys(user, data, CategoryKeys)
  /\ UNCHANGED <<selected, dataLoad, dataJson>>
  /\ UNCHANGED <<showShareModal, share, dialed>>
  /\ UNCHANGED <<i18nVars, eta, profileVars>>
  /\ UNCHANGED appVars
  /\ UNCHANGED envVars
  /\ UNCHANGED ghostVars

(* handleEmergencyCall(category), the handler of an option of the         *)
(* emergency dialog: tel: link of the nearest facility of the category.    *)
(* setShowEmergencyModal(false) leaves the dialog closed: no handler of    *)
(* the view opens it.                                                      *)
handleEmergencyCall ==
  /\ nOps < MaxOps
  /\ nOps' = nOps + 1
  /\ LET nbc == nearestByCategory(user, data)
     IN \E category \in {CategoryKeys[i] : i \in DOMAIN CategoryKeys} :
          dialed' = IF category \in DOMAIN nbc THEN nbc[category][1].phone ELSE dialed
  /\ UNCHANGED <<showShareModal, share>>
  /\ UNCHANGED <<i18nVars, eta, profileVars>>
  /\ UNCHANGED <<appVars, envVars, ghostVars, catalogVars>>

(* ---------------------------- localization ---------------------------- *)
(* fetch('/translations.json').then(r => r.json()).then(setTranslations) *)
TranslationsLoaded ==
  /\ translations = EmptyDictionary
  /\ \E doc \in TranslationDocs : doc # EmptyDictionary /\ translations' = doc
  /\ UNCHANGED <<language, eta, profileVars, shareVars>>
  /\ UNCHANGED <<appVars, envVars, ghostVars, catalogVars>>

(* The language button: setLanguage(lang => lang === 'en' ? 'am' : 'en') *)
ToggleLanguage ==
  /\ language' = IF language = "en" THEN "am" ELSE "en"
  /\ UNCHANGED <<translations, eta, profileVars, shareVars>>
  /\ UNCHANGED <<appVars, envVars, ghostVars, catalogVars>>

(* const t = translations[language] || translations.en || {}               *)
(* Reading a property of null throws; of a number it gives undefined.      *)
t ==
  IF translations.json = "null" THEN [threw |-> TRUE, strings |-> NoMapping.strings]
  ELSE IF translations.json # "object" THEN [threw |-> FALSE, strings |-> NoMapping.strings]
  ELSE IF translations.langs[language].present
       THEN [threw |-> FALSE, strings |-> translations.langs[language].strings]
  ELSE IF translations.langs["en"].present
       THEN [threw |-> FALSE, strings |-> translations.langs["en"].strings]
  ELSE [threw |-> FALSE, strings |-> NoMapping.strings]

(* t.<key> || '<default>': undefined and '' are falsy *)
Shown(key) ==
  IF t.strings[key] \in {Undefined, ""} THEN UIDefaults[key] ELSE t.strings[key]

(* -------------------------------- view -------------------------------- *)
(* Whether computing the nearestByCategory memo throws: `!user` short-     *)
(* circuits; null.length throws; an object, a number and a non-empty       *)
(* string pass `data.length === 0` and have no filter method; in an array  *)
(* the filter callback reads d.type of every element.                      *)
NearestThrows ==
  IF user = Null THEN FALSE
  ELSE IF dataJson # "array" THEN TRUE
  ELSE \E i \in DOMAIN data : data[i] = Null

(* The elements of the array a category filter can select *)
Typed(d) == SelectSeq(d, LAMBDA x : "type" \in DOMAIN x)

(* One render of App: it throws (nothing is shown, React unmounts the      *)
(* tree), or it shows the cards of visibleKeys, the no-services card when  *)
(* there is none, and the strings.                                         *)
AppView ==
  IF t.threw \/ NearestThrows THEN [kind |-> "threw"]
  ELSE LET nbc == IF dataJson = "array" THEN nearestByCategory(user, Typed(data)) ELSE <<>>
           keys == visibleKeys(selected, nbc)
       IN [kind |-> "rendered", visibleKeys |-> keys,
           noServices |-> IF keys = {} THEN Shown("noServices") ELSE "",
           title |-> Shown("title")]

Next ==
  \/ GeoSuccess
  \/ GeoError
  \/ emergencyPressStart
  \/ emergencyPressEnd
  \/ ReleaseElsewhere
  \/ LongPressFire
  \/ RespondersFetched
  \/ TrackingTick
  \/ AcceptFire
  \/ ToastFire
  \/ stopPanicMode
  \/ Advance

(* The panic / tracking subsystem together with location acquisition *)
Spec == Init /\ [][Next]_vars

(* Startup: location acquisition, the catalog fetch and the filter *)
NextStartup ==
  \/ GeoSuccess
  \/ GeoError
  \/ CatalogLoaded
  \/ CatalogFailed
  \/ SetSelected
  \/ Advance

SpecStartup == Init /\ [][NextStartup]_vars

(* The platform answers the position query: one of the two callbacks runs *)
FairStartup == SpecStartup /\ WF_vars(GeoSuccess \/ GeoError)

(* ------------------------------- ETA ---------------------------------- *)
Modes == {"walking", "driving"}

(* Distances in metres: a grid of 125 m, which has the exact half minutes  *)
(* of both modes, and the two distances of one hour.                       *)
EtaDistances == {125 * k : k \in 0..MaxDistanceSteps} \cup {5000, 40000}

(* The distances of the items the last findNearest call returned: the view *)
(* calls calculateETA(item.distanceKm, mode) for each item it shows.       *)
CallDistances ==
  IF call.kind # "call" THEN {}
  ELSE IF call.result.kind = "record" THEN {call.result.item.distanceKm}
  ELSE IF call.result.kind = "list"
       THEN {call.result.items[i].distanceKm : i \in DOMAIN call.result.items}
  ELSE {}

(* A call calculateETA(distanceKm, mode) *)
CalculateETACall ==
  /\ \E d \in EtaDistances \cup CallDistances, mode \in Modes :
       eta' = [kind |-> "call", distance |-> d, mode |-> mode,
               result |-> calculateETA(d, mode)]
  /\ UNCHANGED <<i18nVars, profileVars, shareVars>>
  /\ UNCHANGED <<appVars, envVars, ghostVars, catalogVars>>

(* The scenario catalog: one hospital at (9.02, 38.75), alone or behind a  *)
(* police station.                                                         *)
ScenarioHospital ==
  [name |-> "hospital", type |-> "hospital", phone |-> "907", lat |-> 9020000, lon |-> 38750000]

ScenarioPolice ==
  [name |-> "police", type |-> "police", phone |-> "991",
   lat |-> ADDIS_FALLBACK.lat + 2000, lon |-> ADDIS_FALLBACK.lon - 1000]

InitScenario ==
  /\ user = ADDIS_FALLBACK
  /\ geo = "absent"
  /\ geoLeft = 0
  /\ geoSets = 1
  /\ data \in {<<ScenarioHospital>>, <<ScenarioPolice, ScenarioHospital>>}
  /\ dataJson = "array"
  /\ dataLoad = "loaded"
  /\ InitRest
  /\ storage = NoItem

NextEta ==
  \/ FindNearestCall
  \/ CalculateETACall

(* The selector and the ETA estimator applied in the scenario *)
SpecEta == InitScenario /\ [][NextEta]_vars

(* ------------------------------ profile ------------------------------- *)
(* The initialiser of the profile state and the first render:              *)
(*   raw ? JSON.parse(raw) : { name: '', ... }                             *)
(* JSON.parse throws on a text that is not JSON; a stored null parses and  *)
(* the render then reads profile.name of null.                             *)
InitialProfile(item) ==
  IF item = NoItem \/ item.text = <<>> THEN [kind |-> "mounted", value |-> EmptyProfile]
  ELSE LET obj == JSONparse(item.text)
       IN IF ~obj.ok \/ obj.kind = "null" THEN [kind |-> "threw"]
          ELSE [kind |-> "mounted", value |-> PropertiesOf(obj)]

(* The ID button: setShowShareModal('profile') mounts <Profile /> *)
OpenProfile ==
  /\ profile.kind = "unmounted"
  /\ showShareModal' = "profile"
  /\ profile' = InitialProfile(storage)
  /\ UNCHANGED <<storage, qrDataUrl, qrProfile, scan, nEdits, nSaves>>
  /\ UNCHANGED <<share, nOps, dialed>>
  /\ UNCHANGED <<i18nVars, eta>>
  /\ UNCHANGED <<appVars, envVars, ghostVars, catalogVars>>

(* The page is loaded anew: the component state is gone, the stored item   *)
(* stays.                                                                  *)
Reload ==
  /\ profile.kind # "unmounted"
  /\ profile' = [kind |-> "unmounted"]
  /\ showShareModal' = "false"
  /\ qrDataUrl' = <<>>
  /\ qrProfile' = [kind |-> "none"]
  /\ scan' = [kind |-> "none"]
  /\ UNCHANGED <<storage, nEdits, nSaves>>
  /\ UNCHANGED <<share, nOps, dialed>>
  /\ UNCHANGED <<i18nVars, eta>>
  /\ UNCHANGED <<appVars, envVars, ghostVars, catalogVars>>

(* A form field: onChange={e => setProfile(p => ({ ...p, f: value }))} *)
EditField ==
  /\ profile.kind = "mounted"
  /\ nEdits < MaxEdits
  /\ \E f \in FieldSet, v \in FieldStrings :
       /\ v # profile.value[f]
       /\ profile' = [profile EXCEPT !.value[f] = v]
  /\ nEdits' = nEdits + 1
  /\ UNCHANGED <<storage, qrDataUrl, qrProfile, scan, nSaves>>
  /\ UNCHANGED shareVars
  /\ UNCHANGED <<i18nVars, eta>>
  /\ UNCHANGED <<appVars, envVars, ghostVars, catalogVars>>

(* QRCode.toDataURL(text): the image of a symbol carrying the text's bytes *)
QRCodeToDataURL(text) == Utf8From(text, 1, Len(text))

(* jsQR(...).data for the image of a symbol *)
jsQRData(image) == Utf8Decode(image, 1, Len(image))

(* saveProfile: the item is written, then the code is generated; when      *)
(* QRCode.toDataURL rejects, setQrDataUrl is not reached.                  *)
saveProfile ==
  /\ profile.kind = "mounted"
  /\ nSaves < MaxSaves
  /\ LET json == Stringify(profile.value)
     IN /\ storage' = [item |-> "text", text |-> json]
        /\ IF Fits(json)
           THEN /\ qrDataUrl' = QRCodeToDataURL(json)
                /\ qrProfile' = [kind |-> "saved", value |-> profile.value]
           ELSE UNCHANGED <<qrDataUrl, qrProfile>>
  /\ nSaves' = nSaves + 1
  /\ UNCHANGED <<profile, scan, nEdits>>
  /\ UNCHANGED shareVars
  /\ UNCHANGED <<i18nVars, eta>>
  /\ UNCHANGED <<appVars, envVars, ghostVars, catalogVars>>

(* The files the user may pick: one that is no image, an image without a   *)
(* code, the image of the code shown, an image of another code.            *)
Uploads ==
  { [file |-> "notImage", image |-> <<>>], [file |-> "blank", image |-> <<>>] }
    \cup (IF qrDataUrl # <<>> THEN {[file |-> "shown", image |-> qrDataUrl]} ELSE {})
    \cup { [file |-> "foreign", image |-> QRCodeToDataURL(text)] : text \in ForeignPayloads }

NoFields == [f \in FieldSet |-> <<>>]

(* What onScanUpload does with the file: createImageBitmap rejects for a   *)
(* file that is no image (nothing is alerted); no code, or a code with an  *)
(* empty text, alerts 'No QR detected'; JSON.parse or obj.name throwing    *)
(* alerts 'Invalid QR data'; otherwise the five properties are alerted.    *)
ScanOutcome(up) ==
  IF up.file = "notImage" THEN [alert |-> "none", payload |-> <<>>, fields |-> NoFields]
  ELSE IF up.file = "blank" THEN [alert |-> "No QR detected", payload |-> <<>>, fields |-> NoFields]
  ELSE LET text == jsQRData(up.image)
           obj == JSONparse(text)
       IN IF text = <<>> THEN [alert |-> "No QR detected", payload |-> text, fields |-> NoFields]
          ELSE IF ~obj.ok \/ obj.kind = "null"
               THEN [alert |-> "Invalid QR data", payload |-> text, fields |-> NoFields]
          ELSE [alert |-> "fields", payload |-> text, fields |-> PropertiesOf(obj)]

(* onScanUpload for a chosen file *)
onScanUpload ==
  /\ profile.kind = "mounted"
  /\ \E up \in Uploads :
       LET out == ScanOutcome(up)
       IN scan' = [kind |-> "scan", file |-> up.file, alert |-> out.alert,
                   payload |-> out.payload, fields |-> out.fields,
                   saved |-> IF up.file = "shown" THEN qrProfile.value ELSE NoFields]
  /\ UNCHANGED <<profile, storage, qrDataUrl, qrProfile, nEdits, nSaves>>
  /\ UNCHANGED shareVars
  /\ UNCHANGED <<i18nVars, eta>>
  /\ UNCHANGED <<appVars, envVars, ghostVars, catalogVars>>

(* The page on a platform without the position capability *)
InitProfile ==
  /\ user = GeolocationEffectUser(FALSE)
  /\ geo = "absent"
  /\ geoLeft = 0
  /\ geoSets = 1
  /\ InitCatalog
  /\ InitRest
  /\ storage \in InitialItems

NextProfile ==
  \/ OpenProfile
  \/ Reload
  \/ EditField
  \/ saveProfile
  \/ onScanUpload

(* The health passport: the form, the stored item and the two QR operations *)
SpecProfile == InitProfile /\ [][NextProfile]_vars

(* ------------------------------- share -------------------------------- *)
Mediums == {"whatsapp", "telegram", "sms"}

(* What the platform does with window.open / location.href: the target     *)
(* opens; nothing opens and nothing is thrown (a blocked popup returns     *)
(* null, no handler for sms:); or the call throws.                         *)
ChannelResults == {"opened", "blocked", "throws"}

(* navigator.clipboard.writeText resolves or rejects *)
ClipboardResults == {"copied", "rejected"}

(* The Share My Location button: setShowShareModal(true) *)
OpenShare ==
  /\ showShareModal = "false"
  /\ showShareModal' = "true"
  /\ UNCHANGED <<share, nOps, dialed>>
  /\ UNCHANGED <<i18nVars, eta, profileVars>>
  /\ UNCHANGED <<appVars, envVars, ghostVars, catalogVars>>

(* The share overlay: onClick={() => setShowShareModal(false)} *)
CloseShare ==
  /\ showShareModal = "true"
  /\ showShareModal' = "false"
  /\ UNCHANGED <<share, nOps, dialed>>
  /\ UNCHANGED <<i18nVars, eta, profileVars>>
  /\ UNCHANGED <<appVars, envVars, ghostVars, catalogVars>>

(* shareVia(medium), from an option of the share dialog.  `tried` lists    *)
(* what the handler attempted, in order.                                   *)
shareVia ==
  /\ showShareModal = "true"
  /\ nOps < MaxOps
  /\ nOps' = nOps + 1
  /\ \E medium \in Mediums, channel \in ChannelResults, clip \in ClipboardResults :
       IF user = Null
       THEN /\ share' = [kind |-> "share", medium |-> medium, resolved |-> FALSE,
                         channel |-> "none", clipboard |-> "none", tried |-> <<>>,
                         toast |-> FALSE, closed |-> FALSE]
            /\ UNCHANGED <<showShareModal, showToast, toastMessage, toastTimers>>
       ELSE /\ share' = [kind |-> "share", medium |-> medium, resolved |-> TRUE,
                         channel |-> channel,
                         clipboard |-> IF channel = "throws" THEN clip ELSE "none",
                         tried |-> IF channel = "throws" THEN <<medium, "clipboard">>
                                   ELSE <<medium>>,
                         toast |-> (channel = "throws" /\ clip = "copied"),
                         closed |-> TRUE]
            /\ IF channel = "throws" /\ clip = "copied"
               THEN showToastMsg("Location copied to clipboard", -(nOps + 1))
               ELSE UNCHANGED <<showToast, toastMessage, toastTimers>>
            /\ showShareModal' = "false"
  /\ UNCHANGED dialed
  /\ UNCHANGED <<user, error, isPanic, trackingTimerRef, responders, responderPositions,
                 responderAccepted, emergencyBtnPressRef>>
  /\ UNCHANGED <<geo, geoLeft, held, longTimers, fetches, intervals, acceptTimers>>
  /\ UNCHANGED <<i18nVars, eta, profileVars>>
  /\ UNCHANGED <<ghostVars, catalogVars>>

NextShare ==
  \/ GeoSuccess
  \/ GeoError
  \/ OpenShare
  \/ CloseShare
  \/ shareVia
  \/ ToastFire
  \/ Advance

(* Sharing the location *)
SpecShare == Init /\ [][NextShare]_vars

(* The localization dictionary: its load and the language button.  A      *)
(* missing or non-JSON file is the behaviour in which it never loads:     *)
(* .catch(() => {}) changes nothing.                                       *)
NextI18n ==
  \/ TranslationsLoaded
  \/ ToggleLanguage
  \/ GeoSuccess
  \/ GeoError
  \/ Advance

SpecI18n == Init /\ [][NextI18n]_vars

(* A session in panic mode: no geolocation API, the catalog loaded and    *)
(* not in order of distance from the user, panic mode entered by a double *)
(* tap and the responders fetched.                                        *)
SessionCatalog ==
  <<ScenarioHospital,
    [name |-> "near", type |-> "hospital", phone |-> "912",
     lat |-> ADDIS_FALLBACK.lat + 1000, lon |-> ADDIS_FALLBACK.lon],
    ScenarioPolice>>

InitSession ==
  /\ user = ADDIS_FALLBACK
  /\ geo = "absent"
  /\ geoLeft = 0
  /\ geoSets = 1
  /\ data = SessionCatalog
  /\ dataJson = "array"
  /\ dataLoad = "loaded"
  /\ selected = "all"
  /\ call = [kind |-> "none"]
  /\ error = ""
  /\ isPanic = TRUE
  /\ trackingTimerRef = 1
  /\ responders = RespondersDoc
  /\ responderPositions = InitialPositions(RespondersDoc)
  /\ responderAccepted = FALSE
  /\ emergencyBtnPressRef = [count |-> 2, sinceLast |-> 0, longPress |-> 0]
  /\ showToast = TRUE
  /\ toastMessage = "Alert sent to 3 contacts & local authorities"
  /\ held = {}
  /\ longTimers = {}
  /\ fetches = {}
  /\ intervals = {[id |-> 1, left |-> TRACK_INTERVAL_MS, user |-> ADDIS_FALLBACK]}
  /\ acceptTimers = {[id |-> 1, left |-> ACCEPT_DELAY_MS]}
  /\ toastTimers = {[id |-> 1, left |-> TOAST_MS]}
  /\ nPresses = MaxPresses
  /\ nStarts = 1
  /\ ticks = 0
  /\ pings = 0
  /\ sinceEntry = 0
  /\ gesture = "double"
  /\ translations = EmptyDictionary
  /\ language = "en"
  /\ eta = [kind |-> "none"]
  /\ profile = [kind |-> "unmounted"]
  /\ storage = NoItem
  /\ qrDataUrl = <<>>
  /\ qrProfile = [kind |-> "none"]
  /\ scan = [kind |-> "none"]
  /\ nEdits = 0
  /\ nSaves = 0
  /\ showShareModal = "false"
  /\ share = [kind |-> "none"]
  /\ nOps = 0
  /\ dialed = ""

NextSession ==
  \/ FindNearestCall
  \/ RecomputeNearest
  \/ SetSelected
  \/ handleEmergencyCall
  \/ OpenShare
  \/ CloseShare
  \/ shareVia
  \/ TrackingTick
  \/ AcceptFire
  \/ ToastFire
  \/ stopPanicMode
  \/ Advance

(* The operations of a session over the loaded catalog *)
SpecSession == InitSession /\ [][NextSession]_vars

(* ------------------------- responder motion --------------------------- *)
(* Displacements of length 200 micro-degrees along which the hypotenuse   *)
(* and the step are whole micro-degrees: the fixed-point arithmetic is    *)
(* exact on their multiples.                                              *)
MotionUnits == { <<120, 160>>, <<-160, 120>>, <<56, -192>>, <<0, -200>>, <<200, 0>> }

(* Responder coordinates at 0.0008 .. MaxMotionSteps * 0.0002 degree from  *)
(* the target.                                                             *)
MotionStarts(target) ==
  { [lat |-> target.lat + m * u[1], lon |-> target.lon + m * u[2]] :
      m \in (THRESHOLD \div 200)..MaxMotionSteps, u \in MotionUnits }

(* Panic mode with the interval of a start whose closure holds the        *)
(* fallback coordinate, and two responders somewhere around it.            *)
InitMotion ==
  /\ user = ADDIS_FALLBACK
  /\ geo = "absent"
  /\ geoLeft = 0
  /\ geoSets = 1
  /\ InitCatalog
  /\ selected = "all"
  /\ call = [kind |-> "none"]
  /\ error = ""
  /\ isPanic = TRUE
  /\ trackingTimerRef = 1
  /\ responders = RespondersDoc
  /\ \E a, b \in MotionStarts(ADDIS_FALLBACK) :
       responderPositions = << [id |-> 1, lat |-> a.lat, lon |-> a.lon],
                               [id |-> 2, lat |-> b.lat, lon |-> b.lon] >>
  /\ responderAccepted = FALSE
  /\ emergencyBtnPressRef = [count |-> 2, sinceLast |-> 0, longPress |-> 0]
  /\ showToast = TRUE
  /\ toastMessage = "Alert sent to 3 contacts & local authorities"
  /\ held = {}
  /\ longTimers = {}
  /\ fetches = {}
  /\ intervals = {[id |-> 1, left |-> TRACK_INTERVAL_MS, user |-> ADDIS_FALLBACK]}
  /\ acceptTimers = {[id |-> 1, left |-> ACCEPT_DELAY_MS]}
  /\ toastTimers = {[id |-> 1, left |-> TOAST_MS]}
  /\ nPresses = MaxPresses
  /\ nStarts = 1
  /\ ticks = 0
  /\ pings = 0
  /\ sinceEntry = 0
  /\ gesture = "double"
  /\ translations = EmptyDictionary
  /\ language = "en"
  /\ eta = [kind |-> "none"]
  /\ profile = [kind |-> "unmounted"]
  /\ storage = NoItem
  /\ qrDataUrl = <<>>
  /\ qrProfile = [kind |-> "none"]
  /\ scan = [kind |-> "none"]
  /\ nEdits = 0
  /\ nSaves = 0
  /\ showShareModal = "false"
  /\ share = [kind |-> "none"]
  /\ nOps = 0
  /\ dialed = ""

(* The setResponderPositions update of one tick of interval iv:           *)
(* prev => prev.map(p => ...), against the coordinate its closure holds.   *)
MotionTick ==
  /\ \E iv \in intervals :
       responderPositions' = MoveAll(responderPositions, TickTarget(iv))
  /\ UNCHANGED <<user, error, isPanic, trackingTimerRef, responders, responderAccepted,
                 emergencyBtnPressRef, showToast, toastMessage>>
  /\ UNCHANGED envVars
  /\ UNCHANGED ghostVars
  /\ UNCHANGED catalogVars
  /\ UNCHANGED auxVars

NextMotion ==
  \/ MotionTick

(* The responder update applied tick after tick against a fixed target *)
SpecMotion == InitMotion /\ [][NextMotion]_vars

(* setInterval keeps calling the tick *)
FairMotion == SpecMotion /\ WF_vars(MotionTick)

(* The selector applied to every user coordinate, catalog, category and k *)
SelectUsers == {ADDIS_FALLBACK} \cup GeoPositions

InitSelect ==
  /\ user \in SelectUsers
  /\ geo = "success"
  /\ geoLeft = 0
  /\ geoSets = 1
  /\ data \in Catalogs
  /\ dataJson = "array"
  /\ dataLoad = "loaded"
  /\ InitRest
  /\ storage = NoItem

NextSelect ==
  \/ FindNearestCall
  \/ SetSelected

SpecSelect == InitSelect /\ [][NextSelect]_vars

(* ======================= properties: panic mode ======================= *)

(* C1: once stopPanicMode has run, no periodic tick executes until panic   *)
(* is started anew: while isPanic is false no tick gets past its guard (no *)
(* jitter, no /mock-track ping, no responder movement).                    *)
C1_NoTickWhileIdle == [][~isPanic => pings' = pings]_vars

(* C2: leaving Active cancels the pending acceptance callback: in every    *)
(* state in which isPanic is false, responderAccepted is false.            *)
C2_AcceptedOnlyWhilePanic == ~isPanic => ~responderAccepted

(* C3: isPanic goes from false to true only by a qualifying gesture: a     *)
(* second press-start within 400 ms of the previous one, or a press still  *)
(* held 800 ms after its press-start; never by a press that was released.  *)
C3_OnlyQualifyingGesture == gesture \in {"none", "double", "held"}

(* C4: while panic is Active every tick moves each responder not yet       *)
(* within the threshold one step toward the user coordinate as it is at    *)
(* the time of the tick, and leaves the others where they are.            *)
C4_TickMovesTowardCurrentUser ==
  [][(isPanic /\ ticks' = ticks + 1)
       => responderPositions' = MoveAll(responderPositions, user)]_vars

(* C5: responderAccepted is never true earlier than the fixed delay after  *)
(* the most recent Idle -> Active transition.                             *)
C5_AcceptedNotBeforeDelay == responderAccepted => sinceEntry >= ACCEPT_DELAY_MS

(* ======================== properties: selector ======================== *)
(* The catalog record a ranked item was made from *)
Strip(item) ==
  [name |-> item.name, type |-> item.type, phone |-> item.phone,
   lat |-> item.lat, lon |-> item.lon]

IndexIn(seq, x) == CHOOSE i \in DOMAIN seq : seq[i] = x

OfType(type) == { i \in DOMAIN data : data[i].type = type }

DistTo(i) == haversineKm(user, [lat |-> data[i].lat, lon |-> data[i].lon])

(* items is a ranking of the count nearest records of the type *)
IsRanking(items, type, count) ==
  /\ Len(items) = Min(count, Cardinality(OfType(type)))
  /\ \A i \in DOMAIN items :
       /\ items[i].type = type
       /\ \E c \in OfType(type) : data[c] = Strip(items[i]) /\ items[i].distanceKm = DistTo(c)
  /\ \A i, j \in DOMAIN items : i < j =>
       /\ items[i].distanceKm <= items[j].distanceKm
       /\ Strip(items[i]) # Strip(items[j])
  /\ \A c \in OfType(type) :
       (\A i \in DOMAIN items : Strip(items[i]) # data[c])
         => \A i \in DOMAIN items : items[i].distanceKm <= DistTo(c)

(* C6 as stated: for every count the result is a list, sorted ascending,   *)
(* of that category only, of length min(k, n), holding the k nearest.      *)
C6_AlwaysRankedList ==
  call.kind = "call" =>
    /\ call.result.kind = "list"
    /\ IsRanking(call.result.items, call.type, call.count)

(* C6 amended: for every count other than 1 the result is such a list; for *)
(* count 1 it is not a list but the single nearest record of the category  *)
(* tagged with its distance, or null when the category is empty.           *)
C6_RankedSelection ==
  call.kind = "call" =>
    IF call.count # 1
    THEN /\ call.result.kind = "list"
         /\ IsRanking(call.result.items, call.type, call.count)
    ELSE IF OfType(call.type) = {}
         THEN call.result.kind = "null"
         ELSE /\ call.result.kind = "record"
              /\ IsRanking(<<call.result.item>>, call.type, 1)

C6_Witness ==
  /\ call.kind = "call" /\ call.count = 2
  /\ Cardinality(OfType(call.type)) = 3
  /\ call.result.kind = "list" /\ Len(call.result.items) = 2
  /\ call.result.items[1].distanceKm < call.result.items[2].distanceKm
  /\ data[1] # Strip(call.result.items[1])

(* C7 as stated: a category without facilities gives an empty list for     *)
(* every count, count 1 included, never null.                              *)
C7_EmptyNeverNull ==
  (call.kind = "call" /\ OfType(call.type) = {})
    => call.result.kind = "list" /\ call.result.items = <<>>

(* What the presentation layer dereferences: every visible key has an      *)
(* entry in nearestByCategory, and that entry is a non-empty list.         *)
VisibleKeysBacked ==
  LET nbc == nearestByCategory(user, data)
  IN /\ \A key \in visibleKeys(selected, nbc) : key \in DOMAIN nbc /\ Len(nbc[key]) > 0
     /\ \A key \in DOMAIN nbc : OfType(key) # {}

(* C7 amended: a category without facilities gives an empty list for every *)
(* count other than 1 and null for count 1; nearestByCategory, which calls *)
(* with count 3, keeps no entry for it, so every key the presentation      *)
(* layer dereferences has a non-empty list.                                *)
C7_EmptyCategory ==
  /\ (call.kind = "call" /\ OfType(call.type) = {})
       => IF call.count = 1 THEN call.result.kind = "null"
          ELSE call.result.kind = "list" /\ call.result.items = <<>>
  /\ VisibleKeysBacked

C7_Witness ==
  /\ call.kind = "call" /\ call.count = 3 /\ OfType(call.type) = {}
  /\ Len(data) > 0
  /\ selected = call.type
  /\ visibleKeys(selected, nearestByCategory(user, data)) = {}

(* The records of the call's category that are not in `items` *)
LeftOut(items, type) ==
  { c \in OfType(type) : \A i \in DOMAIN items : Strip(items[i]) # data[c] }

(* Among records at equal distance `items` follows the catalog order, and  *)
(* none that was left out precedes in the catalog one that was returned.   *)
TiesInCatalogOrder(items, type) ==
  /\ \A i, j \in DOMAIN items :
       (i < j /\ items[i].distanceKm = items[j].distanceKm)
         => IndexIn(data, Strip(items[i])) < IndexIn(data, Strip(items[j]))
  /\ \A c \in LeftOut(items, type) : \A i \in DOMAIN items :
       DistTo(c) = items[i].distanceKm => IndexIn(data, Strip(items[i])) < c

ReturnedItems == 
  IF call.result.kind = "list" THEN call.result.items
  ELSE IF call.result.kind = "record" THEN <<call.result.item>>
  ELSE <<>>

(* C8: facilities of one category at equal distance keep their catalog     *)
(* order in the result, and when k cuts a tie the earlier catalog entries  *)
(* are the ones returned.                                                  *)
C8_StableTies ==
  call.kind = "call" => TiesInCatalogOrder(ReturnedItems, call.type)

C8_Witness ==
  /\ call.kind = "call" /\ call.count = 2
  /\ Len(ReturnedItems) = 2
  /\ \E c \in LeftOut(ReturnedItems, call.type) :
       /\ DistTo(c) = ReturnedItems[2].distanceKm
       /\ c > IndexIn(data, Strip(ReturnedItems[2]))
       /\ c > 1 /\ IndexIn(data, Strip(ReturnedItems[1])) > IndexIn(data, Strip(ReturnedItems[2]))

(* ==================== properties: location acquisition ================= *)

(* C9: without the capability, or after the error callback (its timeout    *)
(* included), the user coordinate is exactly ADDIS_FALLBACK, and location  *)
(* acquisition leaves the error message empty: it is non-empty only when   *)
(* the catalog failed to load.                                             *)
C9_FallbackOnFailure ==
  /\ geo \in {"absent", "error", "timeout"} => user = ADDIS_FALLBACK
  /\ dataLoad # "failed" => error = ""

C9_Witness ==
  /\ geo = "timeout"
  /\ user = ADDIS_FALLBACK
  /\ error = ""
  /\ dataLoad = "loaded"

(* C10: location acquisition never hangs: the user coordinate eventually   *)
(* is non-null; it is null only while the query is pending within its      *)
(* timeout; and location acquisition sets it exactly once.                 *)
C10_LocationResolves ==
  /\ <>(user # Null)
  /\ [](user = Null => (geo = "pending" /\ geoLeft >= 0 /\ geoSets = 0))
  /\ [](user # Null => geoSets = 1)

C10_Witness ==
  /\ geo = "success"
  /\ user \in GeoPositions
  /\ geoSets = 1

(* ================== properties: documents and strings ================== *)
(* The catalog document was missing or malformed: the fetch or r.json()    *)
(* rejected, or the parsed body is not a sequence of facility records.     *)
IsFacilityList ==
  /\ dataJson = "array"
  /\ \A i \in DOMAIN data : DOMAIN data[i] = {"name", "type", "phone", "lat", "lon"}

CatalogMissingOrMalformed ==
  \/ dataLoad = "failed"
  \/ dataLoad = "loaded" /\ ~IsFacilityList

(* C11: when the catalog document is missing or malformed the application  *)
(* does not fail: the catalog state stays the empty list, nearestByCategory *)
(* and visibleKeys are empty and the view shows the no-services card.      *)
C11_MalformedCatalogNonFatal ==
  CatalogMissingOrMalformed =>
    /\ dataJson = "array" /\ data = <<>>
    /\ AppView.kind = "rendered"
    /\ AppView.visibleKeys = {}
    /\ AppView.noServices = UIDefaults["noServices"]

(* C12: for every dictionary (never loaded, a language or a key missing,   *)
(* a malformed document) and every language selection, looking up a UI     *)
(* string does not throw, and a key absent from the active mapping is      *)
(* displayed as its literal default.                                       *)
C12_LookupNeverThrows ==
  /\ ~t.threw
  /\ AppView.kind = "rendered"
  /\ \A key \in UIKeys : t.strings[key] = Undefined => AppView[key] = UIDefaults[key]

(* ===================== properties: ETA and distance ==================== *)
(* C13: calculateETA returns distanceKm / speed * 60 rounded to the        *)
(* nearest whole minute, speed 5 km/h walking and 40 km/h driving; 5 km    *)
(* walking and 40 km driving are 60 minutes exactly; the result is a       *)
(* non-negative integer.                                                   *)
C13_EtaRounded ==
  eta.kind = "call" =>
    LET speed == IF eta.mode = "walking" THEN 5 ELSE 40
        num == eta.distance * 60
        den == speed * 1000
    IN /\ eta.result \in Nat
       /\ 2 * Abs(eta.result * den - num) <= den
       /\ (eta.mode = "walking" /\ eta.distance = 5000) => eta.result = 60
       /\ (eta.mode = "driving" /\ eta.distance = 40000) => eta.result = 60

C13_Witness ==
  /\ eta.kind = "call" /\ eta.mode = "walking"
  /\ eta.distance = 625 /\ eta.result = 8

(* The coordinates in the state: the user and the catalog's facilities *)
Points == {user} \cup {[lat |-> data[i].lat, lon |-> data[i].lon] : i \in DOMAIN data}

(* The ranking with the arguments of haversineKm exchanged *)
RankingFromFacility(type) ==
  LET filtered == FilterType(data, type)
  IN SortByDistance(
       [i \in DOMAIN filtered |->
          [name |-> filtered[i].name, type |-> filtered[i].type, phone |-> filtered[i].phone,
           lat |-> filtered[i].lat, lon |-> filtered[i].lon,
           distanceKm |-> haversineKm([lat |-> filtered[i].lat, lon |-> filtered[i].lon], user)]])

(* C17: haversineKm(a, b) = haversineKm(b, a) for all coordinate pairs, so *)
(* the ranking of findNearest is the same whichever argument is the user.  *)
C17_Symmetric ==
  /\ \A a, b \in Points : haversineKm(a, b) = haversineKm(b, a)
  /\ call.kind = "call" =>
       SortByDistance(WithDistance(user, FilterType(data, call.type)))
         = RankingFromFacility(call.type)

C17_Witness ==
  /\ call.kind = "call" /\ call.result.kind = "list" /\ Len(call.result.items) = 2
  /\ call.result.items[1].distanceKm > 0
  /\ call.result.items[1].distanceKm < call.result.items[2].distanceKm
  /\ \E p \in Points : p.lon < user.lon /\ p.lat > user.lat /\ haversineKm(p, user) > 0

(* The scenario: the user at the fallback coordinate, the catalog with one *)
(* hospital at (9.02, 38.75), the selector called for 'hospital' with k 1. *)
ScenarioCall ==
  /\ user = ADDIS_FALLBACK
  /\ Cardinality(OfType("hospital")) = 1
  /\ \E i \in DOMAIN data : data[i] = ScenarioHospital
  /\ call.kind = "call" /\ call.type = "hospital" /\ call.count = 1

(* C18 as stated: the call returns that facility with a distance between   *)
(* 1.3 and 1.5 km and a driving ETA of 2 minutes.                          *)
C18_ScenarioAsStated ==
  ScenarioCall =>
    /\ call.result.kind = "record"
    /\ Strip(call.result.item) = ScenarioHospital
    /\ call.result.item.distanceKm >= 1300 /\ call.result.item.distanceKm <= 1500
    /\ calculateETA(call.result.item.distanceKm, "driving") = 2

(* C18 amended: the call returns that facility with a distance of about    *)
(* 1.6 km (between 1.5 and 1.7 km) and a driving ETA of 2 minutes.         *)
C18_Scenario ==
  ScenarioCall =>
    /\ call.result.kind = "record"
    /\ Strip(call.result.item) = ScenarioHospital
    /\ call.result.item.distanceKm > 1500 /\ call.result.item.distanceKm < 1700
    /\ calculateETA(call.result.item.distanceKm, "driving") = 2
    /\ (eta.kind = "call" /\ eta.mode = "driving"
          /\ eta.distance = call.result.item.distanceKm) => eta.result = 2

C18_Witness ==
  /\ ScenarioCall
  /\ Len(data) = 2
  /\ eta.kind = "call" /\ eta.mode = "driving"
  /\ eta.distance = call.result.item.distanceKm
  /\ eta.result = 2

(* ========================= properties: profile ========================= *)
(* C14: the payload saveProfile encodes into the code, decoded and         *)
(* deserialized by the scan, gives a record equal field for field to the   *)
(* profile that was saved.                                                 *)
C14_RoundTrip ==
  /\ qrDataUrl # <<>> =>
       /\ qrProfile.kind = "saved"
       /\ PropertiesOf(JSONparse(jsQRData(qrDataUrl))) = qrProfile.value
  /\ (scan.kind = "scan" /\ scan.file = "shown") =>
       /\ scan.alert = "fields"
       /\ scan.fields = scan.saved

C14_Witness ==
  /\ scan.kind = "scan" /\ scan.file = "shown"
  /\ scan.saved.allergies = <<"\"", "\\", "\n", "é">>
  /\ scan.saved.name = <<"a">>
  /\ scan.fields = scan.saved

(* A payload that is the JSON of a profile object *)
IsProfilePayload(text) ==
  LET obj == JSONparse(text)
  IN obj.ok /\ obj.kind = "object" /\ \A f \in FieldSet : Property(obj, f) # UndefinedText

(* C15: a scan has exactly three outcomes: no code detected is 'No QR      *)
(* detected'; a payload that is not JSON, or JSON that is no profile       *)
(* object, is 'Invalid QR data'; otherwise the fields are surfaced; and    *)
(* a scan changes neither the stored profile, nor the edited profile, nor  *)
(* the generated code.                                                     *)
C15_ScanOutcomes ==
  /\ [](scan.kind = "scan" =>
          /\ scan.alert \in {"No QR detected", "Invalid QR data", "fields"}
          /\ scan.file \in {"notImage", "blank"} => scan.alert = "No QR detected"
          /\ (scan.file \in {"shown", "foreign"} /\ ~IsProfilePayload(scan.payload))
               => scan.alert = "Invalid QR data"
          /\ (scan.file \in {"shown", "foreign"} /\ IsProfilePayload(scan.payload))
               => /\ scan.alert = "fields"
                  /\ scan.fields = PropertiesOf(JSONparse(scan.payload)))
  /\ [][scan' # scan /\ scan'.kind = "scan" => UNCHANGED <<storage, profile, qrDataUrl>>]_vars

(* The value the stored item deserializes to *)
StoredValue(item) ==
  IF item = NoItem THEN EmptyProfile ELSE PropertiesOf(JSONparse(item.text))

(* C19: the stored item changes only in a saveProfile step, which stores   *)
(* exactly the edited profile; and when the component starts its profile   *)
(* is the stored value, or the empty profile when nothing is stored,       *)
(* whatever is stored.                                                     *)
C19_StoredOnlyBySave ==
  /\ [][storage' # storage => nSaves' = nSaves + 1]_vars
  /\ [][nSaves' = nSaves + 1
          => storage' = [item |-> "text", text |-> Stringify(profile.value)]]_vars
  /\ [][(profile.kind = "unmounted" /\ profile'.kind # "unmounted")
          => profile' = [kind |-> "mounted", value |-> StoredValue(storage)]]_vars

(* ========================== properties: share ========================== *)
(* C16: when the share action of the chosen channel fails, a fallback is   *)
(* attempted, ending with the copy of the maps link to the clipboard; a    *)
(* successful copy is shown by a toast, a failed one is swallowed; and     *)
(* with a resolved user coordinate shareVia ends with the dialog closed.   *)
C16_ShareFallsBack ==
  (share.kind = "share" /\ share.resolved) =>
    /\ share.channel # "opened" => share.tried[Len(share.tried)] = "clipboard"
    /\ share.clipboard = "copied" => share.toast
    /\ share.clipboard = "rejected" => ~share.toast
    /\ share.closed

C21_OneLiveInterval ==
  /\ Cardinality(intervals) <= 1
  /\ \A iv \in intervals : iv.id = trackingTimerRef /\ isPanic

(* ===================== properties: responder motion ==================== *)
(* Coordinate distance of responder position p to the target *)
CoordDist(p, target) == Hypot(target.lat - p.lat, target.lon - p.lon)

(* p lies on the same side of the target as q did, on both axes *)
NotPast(p, q, target) ==
  /\ (target.lat - q.lat) * (target.lat - p.lat) >= 0
  /\ (target.lon - q.lon) * (target.lon - p.lon) >= 0

AllWithin ==
  \A iv \in intervals : \A i \in DOMAIN responderPositions :
    CoordDist(responderPositions[i], iv.user) < THRESHOLD

(* C22: against a fixed target a tick leaves a responder closer than       *)
(* 0.0008 unchanged and otherwise reduces its distance by exactly 0.0006   *)
(* without passing the target (the new distance is >= 0.0002), so no       *)
(* distance ever increases; and eventually every responder is within       *)
(* 0.0008 of the target and stays there.                                   *)
C22_MotionConverges ==
  /\ [][\A iv \in intervals : \A i \in DOMAIN responderPositions :
          LET p == responderPositions[i]
              q == responderPositions'[i]
              d == CoordDist(p, iv.user)
          IN IF d < THRESHOLD THEN q = p
             ELSE /\ CoordDist(q, iv.user) = d - STEP
                  /\ CoordDist(q, iv.user) >= THRESHOLD - STEP
                  /\ NotPast(q, p, iv.user)]_vars
  /\ <>[]AllWithin

(* Witness: one responder stopped at exactly 0.0002 from the target, the   *)
(* closest a step can bring it, the other stopped farther out.             *)
C22_Witness ==
  /\ AllWithin
  /\ \A iv \in intervals :
       /\ CoordDist(responderPositions[1], iv.user) = THRESHOLD - STEP
       /\ CoordDist(responderPositions[2], iv.user) = STEP

(* ========================== properties: toast ========================== *)
(* C23: a toast stays visible for the full 3 s after the most recent       *)
(* showToastMsg call: while the hide timer of some call has time left the  *)
(* toast is shown, whatever earlier timers did, and once no hide timer is  *)
(* pending the toast is hidden.                                            *)
C23_ToastLastsFullTime ==
  /\ (\E a \in toastTimers : a.left > 0) => showToast
  /\ toastTimers = {} => ~showToast

====
